---- MODULE Spec2Model ----
(***************************************************************************)
(* Revo backend: the state of the relational store (users, products,       *)
(* carts, orders, payments, addresses, pickup requests, evaluations) and   *)
(* one action per HTTP handler.  Every handler runs to completion before   *)
(* the next one starts; a handler's result operator computes the rows that *)
(* are committed when it returns, and the response it sends.               *)
(* Money is in whole dollars, Stripe amounts in cents.                     *)
(***************************************************************************)
EXTENDS Integers, Sequences, FiniteSets, TLC

\* ------------------------------------------------------------------ bounds
\* the stock every product starts with
InitQty == 1
\* the orders table is explored up to this many orders
MaxOrders == 1
MaxAddresses == 2
MaxPickups == 1
MaxEvaluations == 1
\* orders placed by interleaved create_order requests
MaxInterleavedOrders == 2

\* ------------------------------------------------------------ Python values
\* None in a numeric or id position (Optional[int] / Optional[float]).
None == -1
\* None in a string position (Optional[str]).
NoneStr == "None"

\* Python truthiness of an Optional number: None and 0 are falsy.
Truthy(x) == x # None /\ x # 0
\* Python truthiness of an Optional string: None and "" are falsy.
TruthyStr(s) == s # NoneStr /\ s # ""
\* Faulty variant of Or3: base_price is preferred to list_price.
Or3_second_first(a, b, c) == IF Truthy(b) THEN b ELSE IF Truthy(a) THEN a ELSE c

\* a or b or c  on Optional numbers
Or3(a, b, c) == IF Truthy(a) THEN a ELSE IF Truthy(b) THEN b ELSE c
\* max(1, qty)
Max1(q) == IF q > 1 THEN q ELSE 1

VARIABLES
    users,              \* users table: id -> row
    products,           \* products table: id -> row
    carts,              \* carts table: id -> [user_id]
    cart_items,         \* cart_items table: <<cart_id, product_id>> -> [qty]
    orders,             \* orders table: id -> row
    order_items,        \* order_items table: <<order_id, product_id>> -> row
    payments,           \* payments table: id -> row
    addresses,          \* addresses table: id -> row
    pickup_requests,    \* pickup_requests table: id -> row
    evaluations,        \* evaluations table: id -> row
    next_id,            \* the serial primary-key counters, per table
    stripe_next_pi,     \* the id Stripe gives the next PaymentIntent
    config,             \* STRIPE_SECRET_KEY / STRIPE_WEBHOOK_SECRET of the process
    sessions,           \* the database session of each customer's request in flight
    resp                \* the response of the last request

vars == <<users, products, carts, cart_items, orders, order_items, payments,
          addresses, pickup_requests, evaluations, next_id, stripe_next_pi,
          config, sessions, resp>>

\* The catalogue: two seeded products.
ProductIds == {1, 2}
NumProducts == Cardinality(ProductIds)
\* a cart line is explored up to one unit more than the initial stock
MaxCartQty == InitQty + 1
\* product ids a client may send: the catalogue and one id that names no product
ProductIdInputs == 1..(NumProducts + 1)

Customers == {1, 2}
Admins == {3}
Evaluators == {4}

\* An HTTP response: the handler, the status code, the "success" field of the
\* frontend-compatible bodies (TRUE for plain 2xx bodies), and the detail/error.
Response(op, status, success, detail) ==
    [op |-> op, status |-> status, success |-> success, detail |-> detail]

\* Restrict a table (a function) to the keys in S.
Restrict(f, S) == [k \in S |-> f[k]]
\* Insert or replace row k of a table.
Put(f, k, row) == [x \in (DOMAIN f) \cup {k} |-> IF x = k THEN row ELSE f[x]]
\* Delete row k of a table.
Del(f, k) == Restrict(f, (DOMAIN f) \ {k})
EmptyTable == [k \in {} |-> 0]

\* ------------------------------------------------------------------- carts
\* select(Cart).where(Cart.user_id == user_id).first(); user_id is unique.
CartOf(cs, user_id) ==
    IF \E c \in DOMAIN cs : cs[c].user_id = user_id
    THEN CHOOSE c \in DOMAIN cs : cs[c].user_id = user_id
    ELSE None

\* _get_or_create_cart: the carts table afterwards and the cart's id.
\* The new cart is committed at once, whatever the handler does next.
_get_or_create_cart(user_id) ==
    LET c == CartOf(carts, user_id)
    IN  IF c # None
        THEN [carts |-> carts, id |-> c, seq |-> next_id]
        ELSE [carts |-> Put(carts, next_id.carts, [user_id |-> user_id]),
              id    |-> next_id.carts,
              seq   |-> [next_id EXCEPT !.carts = @ + 1]]

\* A cart handler returns: its rows are committed and its response is sent.
CartCommit(r) ==
    /\ carts' = r.carts
    /\ cart_items' = r.cart_items
    /\ next_id' = r.next_id
    /\ resp' = r.resp
    /\ UNCHANGED <<sessions, users, products, orders, order_items, payments, addresses,
                   pickup_requests, evaluations, stripe_next_pi, config>>

\* GET /api/cart/ : creates the caller's cart when there is none.
get_cart_result(u) ==
    LET g == _get_or_create_cart(u)
    IN  [carts |-> g.carts, cart_items |-> cart_items, next_id |-> g.seq,
         resp |-> Response("get_cart", 200, TRUE, "")]

get_cart(u) == CartCommit(get_cart_result(u))

\* The quantity of the caller's line for product_id after add_item:
\* item.qty += max(1, qty), or a new line with max(1, qty).
QtyAfterAdd(u, product_id, qty) ==
    LET key == <<_get_or_create_cart(u).id, product_id>>
    IN  IF key \in DOMAIN cart_items
        THEN cart_items[key].qty + Max1(qty)
        ELSE Max1(qty)

\* POST /api/cart/items : an unknown product is refused before the cart is
\* looked up.
add_item_result(u, product_id, qty) ==
    IF product_id \notin DOMAIN products
    THEN [carts |-> carts, cart_items |-> cart_items, next_id |-> next_id,
          resp |-> Response("add_item", 404, FALSE, "Product not found")]
    ELSE LET g == _get_or_create_cart(u)
         IN  [carts |-> g.carts,
              cart_items |-> Put(cart_items, <<g.id, product_id>>,
                                 [qty |-> QtyAfterAdd(u, product_id, qty)]),
              next_id |-> g.seq,
              resp |-> Response("add_item", 201, TRUE, "")]

add_item(u, product_id, qty) ==
    /\ product_id \in DOMAIN products => QtyAfterAdd(u, product_id, qty) <= MaxCartQty
    /\ CartCommit(add_item_result(u, product_id, qty))

\* PUT /api/cart/items/{product_id} : a quantity of zero or less removes the line.
update_item_result(u, product_id, qty) ==
    LET g == _get_or_create_cart(u)
        key == <<g.id, product_id>>
    IN  IF key \notin DOMAIN cart_items
        THEN [carts |-> g.carts, cart_items |-> cart_items, next_id |-> g.seq,
              resp |-> Response("update_item", 404, FALSE, "Item not in cart")]
        ELSE [carts |-> g.carts,
              cart_items |-> IF qty <= 0 THEN Del(cart_items, key)
                             ELSE Put(cart_items, key, [qty |-> qty]),
              next_id |-> g.seq,
              resp |-> Response("update_item", 200, TRUE, "")]

update_item(u, product_id, qty) == CartCommit(update_item_result(u, product_id, qty))

\* DELETE /api/cart/items/{product_id}
delete_item_result(u, product_id) ==
    LET g == _get_or_create_cart(u)
        key == <<g.id, product_id>>
    IN  IF key \notin DOMAIN cart_items
        THEN [carts |-> g.carts, cart_items |-> cart_items, next_id |-> g.seq,
              resp |-> Response("delete_item", 404, FALSE, "Item not in cart")]
        ELSE [carts |-> g.carts, cart_items |-> Del(cart_items, key),
              next_id |-> g.seq,
              resp |-> Response("delete_item", 204, TRUE, "")]

delete_item(u, product_id) == CartCommit(delete_item_result(u, product_id))

\* ------------------------------------------------------------------ orders
\* A request without a shipping address (Body(None) / shippingAddress = None).
NoShipping == [given |-> FALSE, fullName |-> NoneStr, phone |-> NoneStr]

\* _update_user_info_from_shipping_address: the users table after its commit.
_update_user_info_from_shipping_address(us, u, shipping_address) ==
    IF ~shipping_address.given THEN us
    ELSE LET user == us[u]
             n == IF ~TruthyStr(user.full_name) /\ TruthyStr(shipping_address.fullName)
                  THEN shipping_address.fullName ELSE user.full_name
             ph == IF ~TruthyStr(user.phone_number) /\ TruthyStr(shipping_address.phone)
                   THEN shipping_address.phone ELSE user.phone_number
         IN  [us EXCEPT ![u].full_name = n, ![u].phone_number = ph]

\* The ids 1..n in increasing order.
RECURSIVE UpTo(_)
UpTo(n) == IF n <= 0 THEN <<>> ELSE Append(UpTo(n - 1), n)

RECURSIVE SumLineTotals(_)
SumLineTotals(items) ==
    IF items = <<>> THEN 0 ELSE Head(items).line_total + SumLineTotals(Tail(items))

\* One expanded cart line: (item, product, unit_price, line_total).
ExpandCartItem(cart_id, p) ==
    LET product == products[p]
        qty == cart_items[<<cart_id, p>>].qty
        unit_price == Or3(product.list_price, product.base_price, 0)
    IN  [product_id |-> p, title |-> product.title, qty |-> qty,
         unit_price |-> unit_price, line_total |-> unit_price * qty]

\* _compute_cart_totals: the caller's cart, its lines whose product exists, the subtotal.
_compute_cart_totals(user_id) ==
    LET cart == CartOf(carts, user_id)
        InCart(p) == <<cart, p>> \in DOMAIN cart_items /\ p \in DOMAIN products
        rows == SelectSeq(UpTo(NumProducts + 1), InCart)
        expanded_items == [i \in 1..Len(rows) |-> ExpandCartItem(cart, rows[i])]
    IN  IF cart = None
        THEN [cart |-> None, items |-> <<>>, subtotal |-> 0]
        ELSE [cart |-> cart, items |-> expanded_items,
              subtotal |-> SumLineTotals(expanded_items)]

\* Faulty variant of InsufficientStock: the stock is never checked.
InsufficientStock_unchecked(qty, request_qty) == FALSE

\* if product.qty < request_qty: raise 400
InsufficientStock(qty, request_qty) == qty < request_qty

\* Faulty variant of Deduct: the ordered quantity is added to the stock.
Deduct_adds(qty, request_qty) == qty + request_qty

\* product.qty -= request_qty
Deduct(qty, request_qty) == qty - request_qty

\* _check_and_deduct_inventory over the session's product rows.  is_tuple selects
\* the item format: (item, product, unit_price, line_total) from the cart, or a
\* CartItemSchema of the checkout request, whose product is looked up (404).
\* On failure `products` is the session's uncommitted working copy.
RECURSIVE _check_and_deduct_inventory(_, _, _)
_check_and_deduct_inventory(items, prods, is_tuple) ==
    IF items = <<>>
    THEN [ok |-> TRUE, status |-> 200, detail |-> "", products |-> prods]
    ELSE LET item_data == Head(items)
             product_id == IF is_tuple THEN item_data.product_id ELSE item_data.id
             request_qty == IF is_tuple THEN item_data.qty ELSE item_data.quantity
         IN  IF product_id \notin DOMAIN prods
             THEN [ok |-> FALSE, status |-> 404, detail |-> "Product not found",
                   products |-> prods]
             ELSE IF InsufficientStock(prods[product_id].qty, request_qty)
             THEN [ok |-> FALSE, status |-> 400,
                   detail |-> IF prods[product_id].qty = 0 THEN "out of stock"
                              ELSE "out of stock (Only N left)",
                   products |-> prods]
             ELSE _check_and_deduct_inventory(
                      Tail(items),
                      [prods EXCEPT ![product_id].qty = Deduct(@, request_qty)],
                      is_tuple)

\* The session ends (get_session's context manager closes it) with uncommitted
\* changes: the database keeps the committed rows.
SessionClose(committed, working) == committed

\* order.id after session.commit(); session.refresh(order): the id the database gave.
IdAfterRefresh(serial) == serial

\* The OrderItem rows create_order adds for the expanded cart lines.
RECURSIVE AddOrderItems(_, _, _)
AddOrderItems(tbl, order_id, items) ==
    IF items = <<>> THEN tbl
    ELSE LET it == Head(items)
         IN  AddOrderItems(
                 Put(tbl, <<order_id, it.product_id>>,
                     [title_snapshot |-> it.title, unit_price |-> it.unit_price,
                      qty |-> it.qty, line_total |-> it.line_total]),
                 order_id, Tail(items))

\* The database after POST /api/orders/ and its response.  stripe_raises: whether
\* stripe.PaymentIntent.create raises.  The handler commits three times: the
\* order with the stock deduction, the order items, the payment row.
create_order_result(u, shipping, stripe_raises) ==
    LET unchanged == [users |-> users, products |-> products, orders |-> orders,
                      order_items |-> order_items, payments |-> payments,
                      next_id |-> next_id, stripe_next_pi |-> stripe_next_pi]
        totals == _compute_cart_totals(u)
        subtotal == totals.subtotal
        tax == 0
        shipping_fee == 0
        total == subtotal + tax + shipping_fee
        users1 == _update_user_info_from_shipping_address(users, u, shipping)
        inv == _check_and_deduct_inventory(totals.items, products, TRUE)
        order_id == IdAfterRefresh(next_id.orders)
        order == [user_id |-> u, status |-> "pending", subtotal |-> subtotal,
                  tax |-> tax, shipping_fee |-> shipping_fee, total |-> total,
                  notes |-> NoneStr]
        committed2 == [users |-> users1,
                       products |-> inv.products,
                       orders |-> Put(orders, order_id, order),
                       order_items |-> AddOrderItems(order_items, order_id, totals.items),
                       payments |-> payments,
                       next_id |-> [next_id EXCEPT !.orders = @ + 1],
                       stripe_next_pi |-> stripe_next_pi]
        payment == [order_id |-> order_id, stripe_pi |-> stripe_next_pi,
                    amount |-> total, currency |-> "usd",
                    status |-> "requires_payment_method"]
    IN  IF config.stripe_api_key = ""
        THEN [db |-> unchanged, created |-> FALSE,
              resp |-> Response("create_order", 500, FALSE,
                                "Stripe secret key is not configured")]
        ELSE IF totals.items = <<>>
        THEN [db |-> unchanged, created |-> FALSE,
              resp |-> Response("create_order", 400, FALSE, "Cart is empty")]
        ELSE IF ~inv.ok
        THEN [db |-> [unchanged EXCEPT !.users = users1,
                                       !.products = SessionClose(products, inv.products)],
              created |-> FALSE,
              resp |-> Response("create_order", inv.status, FALSE, inv.detail)]
        ELSE IF stripe_raises
        THEN [db |-> committed2, created |-> TRUE,
              resp |-> Response("create_order", 500, FALSE, "Internal Server Error")]
        ELSE [db |-> [committed2 EXCEPT
                        !.payments = Put(payments, next_id.payments, payment),
                        !.next_id = [committed2.next_id EXCEPT !.payments = @ + 1],
                        !.stripe_next_pi = stripe_next_pi + 1],
              created |-> TRUE,
              resp |-> Response("create_order", 200, TRUE, "")]

\* POST /api/orders/
create_order(u, shipping, stripe_raises) ==
    LET r == create_order_result(u, shipping, stripe_raises)
    IN  /\ r.created => next_id.orders <= MaxOrders
        /\ users' = r.db.users
        /\ products' = r.db.products
        /\ orders' = r.db.orders
        /\ order_items' = r.db.order_items
        /\ payments' = r.db.payments
        /\ next_id' = r.db.next_id
        /\ stripe_next_pi' = r.db.stripe_next_pi
        /\ resp' = r.resp
        /\ UNCHANGED <<sessions, carts, cart_items, addresses, pickup_requests, evaluations,
                       config>>

\* ------------------------------------------------- create_order, step by step
\* create_order is a plain def: FastAPI runs each request on a worker thread
\* with a Session of its own (get_session), so two requests interleave at their
\* database round trips.  The steps of one request: it reads the cart and the
\* product rows into its session and checks and deducts the stock on those
\* objects; then session.commit() flushes UPDATE products SET qty = <the value
\* computed in the session> for the products it deducted and inserts the
\* order.  Neither the SELECT nor the UPDATE takes the row's committed qty into
\* account (no FOR UPDATE, no version column, no qty = qty - n).
NoSession == [pc |-> "idle"]

\* The rows a session in flight writes at its commit.
WriteBack(prods, session) ==
    LET dirty == {session.totals.items[i].product_id :
                     i \in 1..Len(session.totals.items)}
    IN  [p \in DOMAIN prods |->
            IF p \in dirty THEN [prods[p] EXCEPT !.qty = session.products[p].qty]
            ELSE prods[p]]

\* POST /api/orders/ up to the end of _check_and_deduct_inventory (orders.py
\* 144-164), without shippingAddress: a request that fails has written nothing
\* and is answered; otherwise the session holds the cart lines and the
\* product rows with the stock deducted.
begin_create_order(u) ==
    LET r == create_order_result(u, NoShipping, FALSE)
        totals == _compute_cart_totals(u)
        inv == _check_and_deduct_inventory(totals.items, products, TRUE)
    IN  /\ sessions[u].pc = "idle"
        /\ IF r.created
           THEN /\ sessions' = [sessions EXCEPT ![u] =
                                   [pc |-> "deducted", totals |-> totals,
                                    products |-> inv.products]]
                /\ UNCHANGED resp
           ELSE /\ resp' = r.resp
                /\ UNCHANGED sessions
        /\ UNCHANGED <<users, products, carts, cart_items, orders, order_items,
                       payments, addresses, pickup_requests, evaluations, next_id,
                       stripe_next_pi, config>>

\* POST /api/orders/ from session.commit() on (orders.py 166-219): the stock
\* and the order are committed, then the order items and the payment row, each
\* keyed by the new order's id; the Stripe call succeeds.
commit_create_order(u) ==
    LET session == sessions[u]
        order_id == IdAfterRefresh(next_id.orders)
        total == session.totals.subtotal
    IN  /\ session.pc = "deducted"
        /\ next_id.orders <= MaxInterleavedOrders
        /\ products' = WriteBack(products, session)
        /\ orders' = Put(orders, order_id,
                         [user_id |-> u, status |-> "pending",
                          subtotal |-> total, tax |-> 0, shipping_fee |-> 0,
                          total |-> total, notes |-> NoneStr])
        /\ order_items' = AddOrderItems(order_items, order_id, session.totals.items)
        /\ payments' = Put(payments, next_id.payments,
                           [order_id |-> order_id, stripe_pi |-> stripe_next_pi,
                            amount |-> total, currency |-> "usd",
                            status |-> "requires_payment_method"])
        /\ next_id' = [next_id EXCEPT !.orders = @ + 1, !.payments = @ + 1]
        /\ stripe_next_pi' = stripe_next_pi + 1
        /\ sessions' = [sessions EXCEPT ![u] = NoSession]
        /\ resp' = Response("create_order", 200, TRUE, "")
        /\ UNCHANGED <<users, carts, cart_items, addresses, pickup_requests,
                       evaluations, config>>

\* ---------------------------------------------------------------- checkout
\* order.id read right after session.add(order), before any flush: the pending
\* object has no primary key yet (Order.id defaults to None).
IdAfterAdd(serial) == None

\* CheckoutRequest.total is declared str: the text of a number, or not.
StrToFloat(s) == CASE s = "0" -> 0 [] s = "5" -> 5 [] OTHER -> None

\* int(round(total * 100)) with total a str: the product is a str and round()
\* raises TypeError (None: no amount).
AmountCentsOfStr(total) == None

\* sum(item.price * item.quantity for item in items)
RECURSIVE SumPriceQuantity(_)
SumPriceQuantity(items) ==
    IF items = <<>> THEN 0
    ELSE Head(items).price * Head(items).quantity + SumPriceQuantity(Tail(items))

\* The pending OrderItem objects of checkout_compatible, with order_id as read
\* from the order object when each was constructed.
PendingOrderItems(items, order_id, prods) ==
    [i \in 1..Len(items) |->
        [order_id |-> order_id,
         product_id |-> items[i].id,
         title_snapshot |-> IF items[i].name # "" THEN items[i].name
                            ELSE prods[items[i].id].title,
         unit_price |-> items[i].price,
         qty |-> items[i].quantity,
         line_total |-> items[i].price * items[i].quantity]]

\* The INSERTs of a flush succeed: order_items.(order_id, product_id) is the
\* primary key, so no part of it is NULL and no two rows share it.
FlushOk(pending_items) ==
    /\ \A i \in 1..Len(pending_items) : pending_items[i].order_id # None
    /\ \A i, j \in 1..Len(pending_items) :
          i # j => <<pending_items[i].order_id, pending_items[i].product_id>>
                   # <<pending_items[j].order_id, pending_items[j].product_id>>

RECURSIVE InsertOrderItems(_, _)
InsertOrderItems(tbl, pending_items) ==
    IF pending_items = <<>> THEN tbl
    ELSE LET it == Head(pending_items)
         IN  InsertOrderItems(
                 Put(tbl, <<it.order_id, it.product_id>>,
                     [title_snapshot |-> it.title_snapshot, unit_price |-> it.unit_price,
                      qty |-> it.qty, line_total |-> it.line_total]),
                 Tail(pending_items))

\* Faulty variant of session_rollback: the pending changes are kept.
session_rollback_keeps(committed, working) == working

\* session.rollback(): the database keeps the committed rows.
session_rollback(committed, working) == committed

\* The database after POST /api/orders/checkout and its response.
checkout_compatible_result(u, orderData, stripe_raises) ==
    LET items == orderData.items
        subtotal == SumPriceQuantity(items)
        tax == 0
        shipping_fee == 0
        total == orderData.total
        users1 == _update_user_info_from_shipping_address(users, u, orderData.shippingAddress)
        committed == [users |-> users1, products |-> products, orders |-> orders,
                      order_items |-> order_items, payments |-> payments,
                      next_id |-> next_id, stripe_next_pi |-> stripe_next_pi]
        inv == _check_and_deduct_inventory(items, products, FALSE)
        pending_items == PendingOrderItems(items, IdAfterAdd(next_id.orders), inv.products)
        payment_method == orderData.paymentMethod
        is_card == payment_method = "card" \/ payment_method = "credit"
        order_id == next_id.orders
        order == [user_id |-> u,
                  status |-> IF is_card THEN "pending" ELSE "paid",
                  subtotal |-> subtotal, tax |-> tax, shipping_fee |-> shipping_fee,
                  total |-> StrToFloat(total), notes |-> NoneStr]
        payment == [order_id |-> order_id, stripe_pi |-> stripe_next_pi,
                    amount |-> StrToFloat(total), currency |-> "usd",
                    status |-> "requires_payment_method"]
        working == [users |-> users1,
                    products |-> inv.products,
                    orders |-> Put(orders, order_id, order),
                    order_items |-> InsertOrderItems(order_items, pending_items),
                    payments |-> IF is_card
                                 THEN Put(payments, next_id.payments, payment)
                                 ELSE payments,
                    next_id |-> IF is_card
                                THEN [next_id EXCEPT !.orders = @ + 1, !.payments = @ + 1]
                                ELSE [next_id EXCEPT !.orders = @ + 1],
                    stripe_next_pi |-> IF is_card THEN stripe_next_pi + 1
                                       ELSE stripe_next_pi]
        Fail(status, detail) ==
            [db |-> session_rollback(committed, working), created |-> FALSE,
             resp |-> Response("checkout_compatible", status, FALSE, detail)]
    IN  IF config.stripe_api_key = ""
        THEN [db |-> [committed EXCEPT !.users = users], created |-> FALSE,
              resp |-> Response("checkout_compatible", 200, FALSE,
                                "Stripe secret key is not configured")]
        ELSE IF items = <<>>
        THEN [db |-> [committed EXCEPT !.users = users], created |-> FALSE,
              resp |-> Response("checkout_compatible", 200, FALSE, "Cart is empty")]
        ELSE IF ~inv.ok
        THEN [db |-> session_rollback(committed,
                                      [committed EXCEPT !.products = inv.products]),
              created |-> FALSE,
              resp |-> Response("checkout_compatible", inv.status, FALSE, inv.detail)]
        ELSE IF is_card /\ (~FlushOk(pending_items) \/ AmountCentsOfStr(total) = None
                            \/ stripe_raises)
        THEN Fail(200, "Payment processing failed")
        ELSE IF ~FlushOk(pending_items) \/ StrToFloat(total) = None
        THEN Fail(200, "Order creation failed")
        ELSE [db |-> working, created |-> TRUE,
              resp |-> Response("checkout_compatible", 200, TRUE, "")]

\* POST /api/orders/checkout
checkout_compatible(u, orderData, stripe_raises) ==
    LET r == checkout_compatible_result(u, orderData, stripe_raises)
    IN  /\ r.created => next_id.orders <= MaxOrders
        /\ users' = r.db.users
        /\ products' = r.db.products
        /\ orders' = r.db.orders
        /\ order_items' = r.db.order_items
        /\ payments' = r.db.payments
        /\ next_id' = r.db.next_id
        /\ stripe_next_pi' = r.db.stripe_next_pi
        /\ resp' = r.resp
        /\ UNCHANGED <<sessions, carts, cart_items, addresses, pickup_requests, evaluations,
                       config>>

\* ----------------------------------------------------------- stripe webhook
\* Faulty variant of PaymentFor: the existing payment row is never found.
PaymentFor_none(ps, order_id, pi_id) == None

\* select(Payment).where(order_id == ..., stripe_pi == ...).first()
PaymentFor(ps, order_id, pi_id) ==
    LET hits == {p \in DOMAIN ps : ps[p].order_id = order_id /\ ps[p].stripe_pi = pi_id}
    IN  IF hits = {} THEN None ELSE CHOOSE p \in hits : \A q \in hits : p <= q

\* (pi.get("amount_received") or pi.get("amount") or 0) / 100.0, cents to dollars
WebhookAmount(pi) == Or3(pi.amount_received, pi.amount, 0) \div 100

\* The rows POST /api/orders/stripe-webhook leaves and its response.
\* signature_ok: whether stripe.Webhook.construct_event accepts the payload and
\* its signature.  event = [type, pi = [id, order_id (metadata), amount_received,
\* amount]].
stripe_webhook_result(signature_ok, event) ==
    LET pi == event.pi
        order_id == pi.order_id
        payment == PaymentFor(payments, order_id, pi.id)
        amount == WebhookAmount(pi)
        marks == /\ event.type = "payment_intent.succeeded"
                 /\ Truthy(order_id)
                 /\ order_id \in DOMAIN orders
                 /\ orders[order_id].status # "paid"
        unchanged == [orders |-> orders, payments |-> payments, next_id |-> next_id]
    IN  IF config.STRIPE_WEBHOOK_SECRET = ""
        THEN [db |-> unchanged,
              resp |-> Response("stripe_webhook", 500, FALSE,
                                "Stripe webhook secret is not configured")]
        ELSE IF ~signature_ok
        THEN [db |-> unchanged,
              resp |-> Response("stripe_webhook", 400, FALSE, "Webhook error")]
        ELSE IF ~marks
        THEN [db |-> unchanged,
              resp |-> Response("stripe_webhook", 200, TRUE, "received")]
        ELSE [db |-> [orders |-> [orders EXCEPT ![order_id].status = "paid"],
                      payments |->
                          IF payment # None
                          THEN [payments EXCEPT ![payment].status = "succeeded",
                                                ![payment].amount = amount,
                                                ![payment].currency = "usd"]
                          ELSE Put(payments, next_id.payments,
                                   [order_id |-> order_id, stripe_pi |-> pi.id,
                                    amount |-> amount, currency |-> "usd",
                                    status |-> "succeeded"]),
                      next_id |-> IF payment # None THEN next_id
                                  ELSE [next_id EXCEPT !.payments = @ + 1]],
              resp |-> Response("stripe_webhook", 200, TRUE, "received")]

\* POST /api/orders/stripe-webhook
stripe_webhook(signature_ok, event) ==
    LET r == stripe_webhook_result(signature_ok, event)
    IN  /\ orders' = r.db.orders
        /\ payments' = r.db.payments
        /\ next_id' = r.db.next_id
        /\ resp' = r.resp
        /\ UNCHANGED <<sessions, users, products, carts, cart_items, order_items, addresses,
                       pickup_requests, evaluations, stripe_next_pi, config>>

\* ------------------------------------------------------------ admin: orders
\* Faulty variant of get_current_admin: every caller is let through.
get_current_admin_anyone(u) == TRUE

\* get_current_admin: the caller's role must be 'admin'.
get_current_admin(u) == users[u].role = "admin"

\* The tables the admin and evaluator handlers write.
StaffDb ==
    [orders |-> orders, order_items |-> order_items, payments |-> payments,
     pickup_requests |-> pickup_requests, evaluations |-> evaluations,
     next_id |-> next_id]

\* raise HTTPException(403) in the role dependency: the handler body never runs.
Forbidden(op, detail) == [db |-> StaffDb, resp |-> Response(op, 403, FALSE, detail)]

\* raise HTTPException(404) before anything is written.
NotFound(op, detail) == [db |-> StaffDb, resp |-> Response(op, 404, FALSE, detail)]

\* A staff handler returns: its rows are committed and its response is sent.
StaffCommit(r) ==
    /\ orders' = r.db.orders
    /\ order_items' = r.db.order_items
    /\ payments' = r.db.payments
    /\ pickup_requests' = r.db.pickup_requests
    /\ evaluations' = r.db.evaluations
    /\ next_id' = r.db.next_id
    /\ resp' = r.resp
    /\ UNCHANGED <<sessions, users, products, carts, cart_items, addresses, stripe_next_pi,
                   config>>

\* Faulty variant of ApplyOrderUpdate: the update also zeroes the total.
ApplyOrderUpdate_resets_total(order, payload) ==
    [order EXCEPT !.status = payload.status, !.total = 0]

\* if payload.status is not None: order.status = payload.status; likewise notes
ApplyOrderUpdate(order, payload) ==
    [order EXCEPT
        !.status = IF payload.status # NoneStr THEN payload.status ELSE @,
        !.notes = IF payload.notes # NoneStr THEN payload.notes ELSE @]

\* PUT /api/admin/orders/{order_id}
update_order_result(u, order_id, payload) ==
    IF ~get_current_admin(u) THEN Forbidden("update_order", "Admin role required")
    ELSE IF order_id \notin DOMAIN orders
    THEN NotFound("update_order", "Order not found")
    ELSE [db |-> [StaffDb EXCEPT
                     !.orders = [orders EXCEPT
                                    ![order_id] = ApplyOrderUpdate(@, payload)]],
          resp |-> Response("update_order", 200, TRUE, "")]

update_order(u, order_id, payload) ==
    StaffCommit(update_order_result(u, order_id, payload))

\* DELETE /api/admin/orders/{order_id} : the order's items and payments are
\* deleted, then the order.
delete_order_result(u, order_id) ==
    IF ~get_current_admin(u) THEN Forbidden("delete_order", "Admin role required")
    ELSE IF order_id \notin DOMAIN orders
    THEN NotFound("delete_order", "Order not found")
    ELSE [db |-> [StaffDb EXCEPT
                     !.order_items =
                         Restrict(order_items,
                                  {k \in DOMAIN order_items : k[1] # order_id}),
                     !.payments =
                         Restrict(payments,
                                  {p \in DOMAIN payments :
                                      payments[p].order_id # order_id}),
                     !.orders = Del(orders, order_id)],
          resp |-> Response("delete_order", 204, TRUE, "")]

delete_order(u, order_id) == StaffCommit(delete_order_result(u, order_id))

\* GET /api/admin/orders : reads only.
list_orders_result(u) ==
    IF ~get_current_admin(u) THEN Forbidden("list_orders", "Admin role required")
    ELSE [db |-> StaffDb, resp |-> Response("list_orders", 200, TRUE, "")]

list_orders(u) == StaffCommit(list_orders_result(u))

\* ---------------------------------------------------------------- addresses
\* A field the request body does not set (model_dump(exclude_unset=True)).
Unset == "unset"

\* Optional[bool] values are written "True", "False" and NoneStr.
AddressesOf(tbl, user_id) == {a \in DOMAIN tbl : tbl[a].user_id = user_id}

\* Faulty variant of UnsetDefaults: the other addresses keep their flag.
UnsetDefaults_keeps(tbl, ids) == tbl

\* for addr in existing_addresses: addr.is_default = False
UnsetDefaults(tbl, ids) ==
    [a \in DOMAIN tbl |-> IF a \in ids THEN [tbl[a] EXCEPT !.is_default = "False"]
                          ELSE tbl[a]]

UnchangedButAddresses ==
    UNCHANGED <<sessions, users, products, carts, cart_items, orders, order_items, payments,
                pickup_requests, evaluations, stripe_next_pi, config>>

\* POST /api/addresses/ ; address_in = [full_name, is_default]
create_address(u, address_in) ==
    LET existing_addresses == AddressesOf(addresses, u)
        is_first_address == existing_addresses = {}
        resets == address_in.is_default = "True" \/ is_first_address
        is_default == IF is_first_address THEN "True" ELSE address_in.is_default
        base == IF resets THEN UnsetDefaults(addresses, existing_addresses)
                ELSE addresses
    IN  /\ next_id.addresses <= MaxAddresses
        /\ addresses' = Put(base, next_id.addresses,
                            [user_id |-> u, full_name |-> address_in.full_name,
                             is_default |-> is_default])
        /\ next_id' = [next_id EXCEPT !.addresses = @ + 1]
        /\ resp' = Response("create_address", 201, TRUE, "")
        /\ UnchangedButAddresses

\* setattr(address, field, value) for every field the body sets
SetFields(address, update_data) ==
    [address EXCEPT
        !.full_name = IF update_data.full_name # Unset THEN update_data.full_name ELSE @,
        !.is_default = IF update_data.is_default # Unset THEN update_data.is_default
                       ELSE @]

\* Faulty variant of OwnedBy: every caller passes the ownership check.
OwnedBy_anyone(row, u) == TRUE

\* address.user_id == current_user.id ; pr.user_id == current_user.id
OwnedBy(row, u) == row.user_id = u

\* The addresses table after PUT /api/addresses/{address_id} and its response;
\* address_in = [full_name, is_default], each possibly Unset.  null_ok: whether
\* the addresses.is_default column accepts NULL (the table created by
\* migrate_database.py does; a NOT NULL column makes the commit fail).  A
\* stored NULL fails the response model after the commit.
update_address_result(u, address_id, address_in, null_ok) ==
    LET others == AddressesOf(addresses, u) \ {address_id}
        base == IF address_in.is_default = "True"
                THEN UnsetDefaults(addresses, others) ELSE addresses
        updated == [base EXCEPT ![address_id] = SetFields(@, address_in)]
    IN  IF address_id \notin DOMAIN addresses
        THEN [addresses |-> addresses,
              resp |-> Response("update_address", 404, FALSE, "Address not found")]
        ELSE IF ~OwnedBy(addresses[address_id], u)
        THEN [addresses |-> addresses,
              resp |-> Response("update_address", 403, FALSE,
                                "You can only update your own addresses")]
        ELSE IF address_in.is_default = NoneStr /\ ~null_ok
        THEN [addresses |-> addresses,
              resp |-> Response("update_address", 500, FALSE, "Internal Server Error")]
        ELSE [addresses |-> updated,
              resp |-> IF updated[address_id].is_default = NoneStr
                       THEN Response("update_address", 500, FALSE,
                                     "Internal Server Error")
                       ELSE Response("update_address", 200, TRUE, "")]

\* PUT /api/addresses/{address_id}
update_address(u, address_id, address_in, null_ok) ==
    LET r == update_address_result(u, address_id, address_in, null_ok)
    IN  /\ addresses' = r.addresses
        /\ resp' = r.resp
        /\ UNCHANGED next_id
        /\ UnchangedButAddresses

\* The addresses table after DELETE /api/addresses/{address_id} and its response.
delete_address_result(u, address_id) ==
    IF address_id \notin DOMAIN addresses
    THEN [addresses |-> addresses,
          resp |-> Response("delete_address", 404, FALSE, "Address not found")]
    ELSE IF ~OwnedBy(addresses[address_id], u)
    THEN [addresses |-> addresses,
          resp |-> Response("delete_address", 403, FALSE,
                            "You can only delete your own addresses")]
    ELSE [addresses |-> Del(addresses, address_id),
          resp |-> Response("delete_address", 204, TRUE, "")]

\* DELETE /api/addresses/{address_id}
delete_address(u, address_id) ==
    LET r == delete_address_result(u, address_id)
    IN  /\ addresses' = r.addresses
        /\ resp' = r.resp
        /\ UNCHANGED next_id
        /\ UnchangedButAddresses

\* ------------------------------------------------------------------ trade-in
\* The brands table (seeded; no handler modelled here changes it).
brands == [b \in {1} |-> "Apple"]

\* select(Brand).where(Brand.name == brand_name).first()
BrandByName(brand_name) ==
    IF \E b \in DOMAIN brands : brands[b] = brand_name
    THEN CHOOSE b \in DOMAIN brands : brands[b] = brand_name
    ELSE None

UnchangedButTradein ==
    UNCHANGED <<sessions, users, products, carts, cart_items, orders, order_items, payments,
                addresses, stripe_next_pi, config>>

\* The rows POST /api/tradein/pickup-requests leaves and its response; the form
\* gives brand_id and brand_name, each possibly None.
\* pickup_requests.brand_id is a foreign key to brands.id.
create_pickup_request_result(u, brand_id, brand_name) ==
    LET by_name == ~Truthy(brand_id) /\ TruthyStr(brand_name)
        resolved_brand_id == IF by_name THEN BrandByName(brand_name) ELSE brand_id
        Reject(status, detail) ==
            [pickup_requests |-> pickup_requests, next_id |-> next_id,
             resp |-> Response("create_pickup_request", status, FALSE, detail)]
    IN  IF by_name /\ resolved_brand_id = None
        THEN Reject(400, "Brand not found")
        ELSE IF ~Truthy(resolved_brand_id)
        THEN Reject(400, "Brand ID or brand name is required")
        ELSE IF resolved_brand_id \notin DOMAIN brands
        THEN Reject(500, "Internal Server Error")
        ELSE [pickup_requests |-> Put(pickup_requests, next_id.pickup_requests,
                                      [user_id |-> u,
                                       brand_id |-> resolved_brand_id,
                                       status |-> "requested"]),
              next_id |-> [next_id EXCEPT !.pickup_requests = @ + 1],
              resp |-> Response("create_pickup_request", 201, TRUE, "")]

\* POST /api/tradein/pickup-requests
create_pickup_request(u, brand_id, brand_name) ==
    LET r == create_pickup_request_result(u, brand_id, brand_name)
    IN  /\ r.pickup_requests # pickup_requests => next_id.pickup_requests <= MaxPickups
        /\ pickup_requests' = r.pickup_requests
        /\ next_id' = r.next_id
        /\ resp' = r.resp
        /\ UNCHANGED evaluations
        /\ UnchangedButTradein

\* payload.action.lower().strip()
LowerStrip(action) ==
    CASE action \in {"accept", "Accept", " ACCEPT "} -> "accept"
      [] action \in {"reject", "Reject", " REJECT "} -> "reject"
      [] OTHER -> action

\* The pickup_requests table after POST
\* /api/tradein/pickup-requests/{pickup_id}/respond and its response.
respond_to_offer_result(u, pickup_id, payload_action) ==
    LET action == LowerStrip(payload_action)
    IN  IF pickup_id \notin DOMAIN pickup_requests
           \/ ~OwnedBy(pickup_requests[pickup_id], u)
        THEN [pickup_requests |-> pickup_requests,
              resp |-> Response("respond_to_offer", 404, FALSE,
                                "Pickup request not found")]
        ELSE IF action \notin {"accept", "reject"}
        THEN [pickup_requests |-> pickup_requests,
              resp |-> Response("respond_to_offer", 400, FALSE, "Invalid action")]
        ELSE [pickup_requests |->
                  [pickup_requests EXCEPT ![pickup_id].status =
                      IF action = "accept" THEN "accepted" ELSE "rejected"],
              resp |-> Response("respond_to_offer", 200, TRUE, "")]

\* POST /api/tradein/pickup-requests/{pickup_id}/respond
respond_to_offer(u, pickup_id, payload_action) ==
    LET r == respond_to_offer_result(u, pickup_id, payload_action)
    IN  /\ pickup_requests' = r.pickup_requests
        /\ resp' = r.resp
        /\ UNCHANGED <<evaluations, next_id>>
        /\ UnchangedButTradein

\* deviceData.get(key): None when the JSON object has no such key.
Get(deviceData, key) == IF key \in DOMAIN deviceData THEN deviceData[key] ELSE NoneStr

\* condition.upper()
Upper(condition) ==
    CASE condition = "a" -> "A"
      [] condition = "b" -> "B"
      [] condition = "c" -> "C"
      [] condition = "d" -> "D"
      [] condition = " a" -> " A"
      [] OTHER -> condition

\* base_prices.get(condition.upper(), 500), in dollars
base_price(condition) ==
    CASE Upper(condition) = "A" -> 800
      [] Upper(condition) = "B" -> 600
      [] Upper(condition) = "C" -> 400
      [] OTHER -> 500

\* Faulty variant of storage_multiplier: every storage counts as the smallest.
storage_multiplier_flat(storage) == 10

\* storage_multiplier.get(storage, 1.0), in tenths
storage_multiplier(storage) ==
    CASE storage = "128GB" -> 10
      [] storage = "256GB" -> 12
      [] storage = "512GB" -> 15
      [] storage = "1TB" -> 20
      [] OTHER -> 10

\* The JSON object POST /api/tradein/estimate answers with.  deviceData is a
\* JSON object of strings; every product base_price * multiplier is a whole
\* number of dollars, so round(..., 2) changes nothing.
get_tradein_estimate_result(deviceData) ==
    LET brand_name == Get(deviceData, "brand")
        model_text == Get(deviceData, "model")
        storage == Get(deviceData, "storage")
        condition == Get(deviceData, "condition")
        estimated_price == (base_price(condition) * storage_multiplier(storage)) \div 10
        service_fee == 50
    IN  IF DOMAIN deviceData = {}
        THEN [success |-> FALSE, error |-> "Device data is required"]
        ELSE IF ~TruthyStr(brand_name) \/ ~TruthyStr(model_text) \/ ~TruthyStr(condition)
        THEN [success |-> FALSE, error |-> "Brand, model, and condition are required"]
        ELSE [success |-> TRUE,
              data |-> [estimated_price |-> estimated_price,
                        service_fee |-> service_fee,
                        net_amount |-> estimated_price - service_fee]]

\* POST /api/tradein/estimate : reads and writes no table.  The exchange is
\* recorded with the request body next to the JSON object answered.
get_tradein_estimate(deviceData) ==
    /\ LET body == get_tradein_estimate_result(deviceData)
       IN  resp' = [op |-> "get_tradein_estimate", status |-> 200,
                    success |-> body.success,
                    detail |-> IF body.success THEN "" ELSE body.error,
                    deviceData |-> deviceData,
                    body |-> body]
    /\ UNCHANGED <<sessions, users, products, carts, cart_items, orders, order_items, payments,
                   addresses, pickup_requests, evaluations, next_id, stripe_next_pi,
                   config>>

\* get_current_evaluator: the caller's role must be 'evaluator'.
get_current_evaluator(u) == users[u].role = "evaluator"

\* POST /api/internal/evaluations ; payload = [pickup_id, final_offer]
create_evaluation_result(u, payload) ==
    IF ~get_current_evaluator(u)
    THEN Forbidden("create_evaluation", "Evaluator role required")
    ELSE IF payload.pickup_id \notin DOMAIN pickup_requests
    THEN NotFound("create_evaluation", "Pickup request not found")
    ELSE [db |-> [StaffDb EXCEPT
                     !.evaluations =
                         Put(evaluations, next_id.evaluations,
                             [pickup_id |-> payload.pickup_id,
                              tester_id |-> u,
                              final_offer |-> payload.final_offer,
                              notes |-> NoneStr]),
                     !.next_id = [next_id EXCEPT !.evaluations = @ + 1],
                     !.pickup_requests =
                         [pickup_requests EXCEPT
                             ![payload.pickup_id].status = "offered"]],
          resp |-> Response("create_evaluation", 201, TRUE, "")]

create_evaluation(u, payload) ==
    /\ create_evaluation_result(u, payload).resp.status = 201
          => next_id.evaluations <= MaxEvaluations
    /\ StaffCommit(create_evaluation_result(u, payload))

\* ---------------------------------------------------------- admin: trade-ins
EvaluationsOf(tbl, pickup_id) == {e \in DOMAIN tbl : tbl[e].pickup_id = pickup_id}

\* Faulty variant of FirstEvaluation: the query never finds a row.
FirstEvaluation_none(pickup_id) == {None}

\* select(Evaluation).where(pickup_id == ...).first() has no ORDER BY: it may
\* return any evaluation of the pickup, or None when there is none.
FirstEvaluation(pickup_id) ==
    IF EvaluationsOf(evaluations, pickup_id) = {}
    THEN {None}
    ELSE EvaluationsOf(evaluations, pickup_id)

\* PUT /api/admin/tradeins/{pickup_id}/evaluate ; payload = [final_offer, notes,
\* status]; evaluation is the row the query returned.
evaluate_tradein_result(u, pickup_id, payload, evaluation) ==
    IF ~get_current_admin(u) THEN Forbidden("evaluate_tradein", "Admin role required")
    ELSE IF pickup_id \notin DOMAIN pickup_requests
    THEN NotFound("evaluate_tradein", "Pickup request not found")
    ELSE [db |-> [StaffDb EXCEPT
                     !.evaluations =
                         IF evaluation # None
                         THEN [evaluations EXCEPT
                                  ![evaluation].final_offer = payload.final_offer,
                                  ![evaluation].notes = payload.notes,
                                  ![evaluation].tester_id = u]
                         ELSE Put(evaluations, next_id.evaluations,
                                  [pickup_id |-> pickup_id,
                                   tester_id |-> u,
                                   final_offer |-> payload.final_offer,
                                   notes |-> payload.notes]),
                     !.next_id =
                         IF evaluation # None THEN next_id
                         ELSE [next_id EXCEPT !.evaluations = @ + 1],
                     !.pickup_requests =
                         [pickup_requests EXCEPT ![pickup_id].status = payload.status]],
          resp |-> Response("evaluate_tradein", 200, TRUE, "")]

evaluate_tradein(u, pickup_id, payload) ==
    \E evaluation \in FirstEvaluation(pickup_id) :
        LET r == evaluate_tradein_result(u, pickup_id, payload, evaluation)
        IN  /\ (r.resp.status = 200 /\ evaluation = None)
                  => next_id.evaluations <= MaxEvaluations
            /\ StaffCommit(r)

\* DELETE /api/admin/tradeins/{pickup_id} : the pickup's evaluations are
\* deleted, then the pickup request.
delete_tradein_result(u, pickup_id) ==
    IF ~get_current_admin(u) THEN Forbidden("delete_tradein", "Admin role required")
    ELSE IF pickup_id \notin DOMAIN pickup_requests
    THEN NotFound("delete_tradein", "Pickup request not found")
    ELSE [db |-> [StaffDb EXCEPT
                     !.evaluations =
                         Restrict(evaluations,
                                  DOMAIN evaluations
                                      \ EvaluationsOf(evaluations, pickup_id)),
                     !.pickup_requests = Del(pickup_requests, pickup_id)],
          resp |-> Response("delete_tradein", 204, TRUE, "")]

delete_tradein(u, pickup_id) == StaffCommit(delete_tradein_result(u, pickup_id))

\* GET /api/admin/tradeins : reads only.
list_tradeins_result(u) ==
    IF ~get_current_admin(u) THEN Forbidden("list_tradeins", "Admin role required")
    ELSE [db |-> StaffDb, resp |-> Response("list_tradeins", 200, TRUE, "")]

list_tradeins(u) == StaffCommit(list_tradeins_result(u))

\* ------------------------------------------------------------ registration
\* A register request body that passes validation: the JSON key email (the
\* password plays no part here) and the key role, NoneStr when the client does
\* not send it.  UserCreate declares email and password only, and pydantic
\* ignores undeclared keys: the validated payload has no attribute role.
UserCreate(body) == [email |-> body.email]

\* Faulty variant of EmailTaken: the lookup finds nobody.
EmailTaken_never(email) == FALSE

\* select(User).where(User.email == payload.email).first()
EmailTaken(email) == \E u \in DOMAIN users : users[u].email = email

\* a or b on strings
OrStr(a, b) == IF TruthyStr(a) THEN a ELSE b

\* The users table POST /api/auth/register leaves, the token it issues (None
\* for none, else the user id the token names) and its response.  Reading an
\* attribute the payload does not have raises AttributeError: HTTP 500.
register_result(body) ==
    LET payload == UserCreate(body)
        unchanged == [users |-> users, next_id |-> next_id, token |-> None]
    IN  IF EmailTaken(payload.email)
        THEN [db |-> unchanged,
              resp |-> Response("register", 201, FALSE, "Email already registered")]
        ELSE IF "role" \notin DOMAIN payload
        THEN [db |-> unchanged,
              resp |-> Response("register", 500, FALSE, "Internal Server Error")]
        ELSE [db |-> [users |-> Put(users, next_id.users,
                                   [email |-> payload.email,
                                    role |-> OrStr(payload.role, "customer"),
                                    full_name |-> NoneStr,
                                    phone_number |-> NoneStr]),
                      next_id |-> [next_id EXCEPT !.users = @ + 1],
                      token |-> next_id.users],
              resp |-> Response("register", 201, TRUE, "")]

\* POST /api/auth/register
register(body) ==
    LET r == register_result(body)
    IN  /\ users' = r.db.users
        /\ next_id' = r.db.next_id
        /\ resp' = r.resp
        /\ UNCHANGED <<sessions, products, carts, cart_items, orders, order_items, payments,
                       addresses, pickup_requests, evaluations, stripe_next_pi,
                       config>>

\* ------------------------------------------------------------ initial state
\* The catalogue rows (seeded; no handler creates, edits or deletes products).
\* Product 1 has a list price, product 2 only a base price, further products
\* neither.
ProductRow(p) ==
    [title |-> IF p = 1 THEN "P1" ELSE IF p = 2 THEN "P2" ELSE "P3",
     list_price |-> IF p = 1 THEN 3 ELSE IF p = 2 THEN None ELSE 0,
     base_price |-> IF p = 1 THEN 2 ELSE IF p = 2 THEN 2 ELSE None,
     qty |-> InitQty]

UserRow(email, role) ==
    [email |-> email, role |-> role, full_name |-> NoneStr, phone_number |-> NoneStr]

Init ==
    /\ users = [u \in Customers \cup Admins \cup Evaluators |->
                  IF u \in Admins THEN UserRow("admin@revo", "admin")
                  ELSE IF u \in Evaluators THEN UserRow("eval@revo", "evaluator")
                  ELSE IF u = 1 THEN UserRow("a@revo", "customer")
                  ELSE UserRow("b@revo", "customer")]
    /\ products = [p \in ProductIds |-> ProductRow(p)]
    /\ carts = EmptyTable
    /\ cart_items = EmptyTable
    /\ orders = EmptyTable
    /\ order_items = EmptyTable
    /\ payments = EmptyTable
    /\ addresses = EmptyTable
    /\ pickup_requests = EmptyTable
    /\ evaluations = EmptyTable
    /\ next_id = [carts |-> 1, orders |-> 1, payments |-> 1, addresses |-> 1,
                  pickup_requests |-> 1, evaluations |-> 1,
                  users |-> Cardinality(Customers \cup Admins \cup Evaluators) + 1]
    /\ stripe_next_pi = 1
    /\ config \in [stripe_api_key : {"", "sk_test"},
                   STRIPE_WEBHOOK_SECRET : {"", "whsec"}]
    /\ sessions = [u \in Customers |-> NoSession]
    /\ resp = Response("none", 0, TRUE, "")

\* Both Stripe settings are configured.
InitConfigured ==
    /\ Init
    /\ config.stripe_api_key # ""
    /\ config.STRIPE_WEBHOOK_SECRET # ""

\* ------------------------------------------------------------------ inputs
ShippingInputs == {NoShipping, [given |-> TRUE, fullName |-> "Ann", phone |-> "555"]}

Item(id, quantity) == [id |-> id, name |-> "X", price |-> 1, quantity |-> quantity]

\* Item lists of checkout requests: in stock, a negative quantity, more than the
\* stock, an unknown product, two products, the same product twice.
CheckoutItemLists ==
    { <<>>,
      <<Item(1, 1)>>, <<Item(1, -1)>>, <<Item(1, InitQty + 1)>>,
      <<Item(NumProducts + 1, 1)>>,
      <<Item(1, 1), Item(2, InitQty + 1)>>,
      <<Item(1, InitQty), Item(1, 1)>>,
      <<Item(NumProducts + 1, 1), Item(1, InitQty + 1)>> }

CheckoutRequest(items, paymentMethod, shippingAddress) ==
    [items |-> items, total |-> "5", paymentMethod |-> paymentMethod,
     shippingAddress |-> shippingAddress]

\* Checkout requests: every item list paid by wallet, and a one-item list paid
\* by each of the other methods, one of them with a shipping address.
CheckoutRequests ==
    { CheckoutRequest(l, "wallet", NoShipping) : l \in CheckoutItemLists }
    \cup { CheckoutRequest(<<Item(1, 1)>>, m, NoShipping) : m \in {"card", "credit", "paypal"} }
    \cup { CheckoutRequest(<<Item(1, 1)>>, "cod", sh) : sh \in ShippingInputs \ {NoShipping} }

\* A one-item checkout paid by wallet and one paid by card.
PaymentCheckoutRequests ==
    { CheckoutRequest(<<Item(1, 1)>>, m, NoShipping) : m \in {"wallet", "card"} }

\* Stripe is only called for the methods that create a PaymentIntent.
StripeOutcomes(paymentMethod) ==
    IF paymentMethod \in {"card", "credit"} THEN BOOLEAN ELSE {FALSE}

OrderIdInputs == 1..(MaxOrders + 1)

Pi(id, order_id, amount_received) ==
    [id |-> id, order_id |-> order_id, amount_received |-> amount_received,
     amount |-> 200]

\* Webhook events: payment_intent.succeeded for the PaymentIntent create_order
\* made for the first order and for another one, naming the first order, no
\* order, the second order, or an order that does not exist; one without
\* amount_received; and one event of another type.
WebhookEvents ==
    { [type |-> "payment_intent.succeeded", pi |-> Pi(k, 1, 200)] : k \in 1..2 }
    \cup { [type |-> "payment_intent.succeeded", pi |-> Pi(1, o, 200)] :
              o \in {None, 2, MaxOrders + 1} }
    \cup { [type |-> "payment_intent.succeeded", pi |-> Pi(1, 1, None)],
           [type |-> "payment_intent.payment_failed", pi |-> Pi(1, 1, 200)] }

NoUpdate == [status |-> NoneStr, notes |-> NoneStr]

OrderUpdatePayloads ==
    { NoUpdate,
      [status |-> "paid", notes |-> NoneStr],
      [status |-> "shipped", notes |-> "n"] }

\* ------------------------------------------------- checkout system: cart to order
\* The first customer fills the cart one unit at a time with any product id and
\* empties it line by line; the second customer puts the whole stock of the
\* last product in the cart; both place orders; the first also checks out.
NextCheckout ==
    \/ get_cart(1)
    \/ \E p \in ProductIdInputs : add_item(1, p, 1)
    \/ add_item(2, NumProducts, InitQty)
    \/ \E p \in ProductIdInputs : delete_item(1, p)
    \/ \E u \in Customers, sr \in BOOLEAN : create_order(u, NoShipping, sr)
    \/ \E d \in PaymentCheckoutRequests : \E sr \in StripeOutcomes(d.paymentMethod) :
          checkout_compatible(1, d, sr)

InitCheckout == Init /\ config.STRIPE_WEBHOOK_SECRET = "whsec"

SpecCheckout == InitCheckout /\ [][NextCheckout]_vars

\* ------------------------------------------------------- claims: cart to order
\* The units of product p a checkout item list asks for, all its lines together.
RECURSIVE UnitsAsked(_, _)
UnitsAsked(items, p) ==
    IF items = <<>> THEN 0
    ELSE (IF Head(items).id = p THEN Head(items).quantity ELSE 0)
         + UnitsAsked(Tail(items), p)

\* The caller's cart asks for more units of some product than are in stock.
CartAsksTooMuch(u) ==
    \E k \in DOMAIN cart_items :
        /\ k[1] = CartOf(carts, u)
        /\ cart_items[k].qty > products[k[2]].qty

\* A checkout request asks for more units of some product than are in stock.
RequestAsksTooMuch(items) ==
    \E p \in DOMAIN products : UnitsAsked(items, p) > products[p].qty

AllProductsKnown(items) ==
    \A i \in 1..Len(items) : items[i].id \in DOMAIN products

OutOfStock(r) ==
    /\ r.status = 400
    /\ r.detail \in {"out of stock", "out of stock (Only N left)"}

CreateOrderInputs == ShippingInputs \X BOOLEAN

CheckoutInputs ==
    { <<d, sr>> \in CheckoutRequests \X BOOLEAN : sr \in StripeOutcomes(d.paymentMethod) }

StockNeverNegative == \A p \in DOMAIN products : products[p].qty >= 0

CartLines(u) == {k \in DOMAIN cart_items : k[1] = CartOf(carts, u)}

\* unit_price of a product in an order: list_price, else base_price, else 0.
ExpectedUnitPrice(p) ==
    IF products[p].list_price # None /\ products[p].list_price # 0
    THEN products[p].list_price
    ELSE IF products[p].base_price # None /\ products[p].base_price # 0
    THEN products[p].base_price
    ELSE 0

RECURSIVE ExpectedSubtotal(_)
ExpectedSubtotal(lines) ==
    IF lines = {} THEN 0
    ELSE LET k == CHOOSE x \in lines : TRUE
         IN  ExpectedUnitPrice(k[2]) * cart_items[k].qty + ExpectedSubtotal(lines \ {k})

\* The result r of create_order for caller u added exactly one order: pending,
\* owned by u, one item per cart line priced as the claim says, totals summed.
CreatedOneOrderFromCart(u, r) ==
    LET lines == CartLines(u)
        new == DOMAIN r.db.orders \ DOMAIN orders
    IN  /\ r.created
        /\ Cardinality(new) = 1
        /\ \A o \in DOMAIN orders : o \in DOMAIN r.db.orders /\ r.db.orders[o] = orders[o]
        /\ \A o \in new :
              /\ r.db.orders[o].user_id = u
              /\ r.db.orders[o].status = "pending"
              /\ r.db.orders[o].subtotal = ExpectedSubtotal(lines)
              /\ r.db.orders[o].tax = 0
              /\ r.db.orders[o].shipping_fee = 0
              /\ r.db.orders[o].total = r.db.orders[o].subtotal
              /\ DOMAIN r.db.order_items
                    = DOMAIN order_items \cup {<<o, k[2]>> : k \in lines}
              /\ \A k \in DOMAIN order_items : r.db.order_items[k] = order_items[k]
              /\ \A k \in lines :
                    r.db.order_items[<<o, k[2]>>] =
                        [title_snapshot |-> products[k[2]].title,
                         unit_price |-> ExpectedUnitPrice(k[2]),
                         qty |-> cart_items[k].qty,
                         line_total |-> ExpectedUnitPrice(k[2]) * cart_items[k].qty]

CartIsEmptyNoOrder(r) ==
    /\ r.resp.status = 400 /\ r.resp.detail = "Cart is empty"
    /\ ~r.created
    /\ r.db.orders = orders /\ r.db.order_items = order_items

C6_CheckoutAllOrNothing ==
    \A u \in Customers, i \in CheckoutInputs :
        LET r == checkout_compatible_result(u, i[1], i[2])
        IN  ~r.resp.success =>
                /\ r.db.products = products
                /\ r.db.orders = orders
                /\ r.db.order_items = order_items
                /\ r.db.payments = payments

\* C6 witness: a checkout whose stock check passed was rolled back, with stock
\* left to deduct and orders in the database.
C6_Witness ==
    /\ resp.op = "checkout_compatible"
    /\ ~resp.success
    /\ resp.detail \in {"Order creation failed", "Payment processing failed"}
    /\ orders # EmptyTable
    /\ \E p \in DOMAIN products : products[p].qty > 0

\* Units of product p in the caller's cart.
CartUnits(u, p) ==
    IF <<CartOf(carts, u), p>> \in DOMAIN cart_items
    THEN cart_items[<<CartOf(carts, u), p>>].qty ELSE 0

\* C7: a create_order or checkout_compatible request that creates an order
\* reduces each ordered product's qty by exactly the ordered quantity, never
\* increases a qty, and leaves every other product's qty unchanged.
C7_ExactDeduction ==
    /\ \A u \in Customers, i \in CreateOrderInputs :
          LET r == create_order_result(u, i[1], i[2])
          IN  (r.created \/ r.resp.success) =>
                  \A p \in DOMAIN products :
                      /\ r.db.products[p].qty = products[p].qty - CartUnits(u, p)
                      /\ r.db.products[p].qty <= products[p].qty
    /\ \A u \in Customers, i \in CheckoutInputs :
          LET r == checkout_compatible_result(u, i[1], i[2])
          IN  (r.created \/ r.resp.success) =>
                  \A p \in DOMAIN products :
                      /\ r.db.products[p].qty
                            = products[p].qty - UnitsAsked(i[1].items, p)
                      /\ r.db.products[p].qty <= products[p].qty

\* C7 witness: an order took the last unit of one product and left the other.
C7_Witness ==
    /\ resp.op = "create_order" /\ resp.status = 200
    /\ \E p, q \in DOMAIN products :
          /\ products[p].qty = 0
          /\ products[q].qty = InitQty
          /\ \E o \in DOMAIN orders :
                <<o, p>> \in DOMAIN order_items /\ <<o, q>> \notin DOMAIN order_items

\* ------------------------------------------ payment system: orders after creation
\* One customer puts the whole stock of a product in the cart, sets the first
\* line to one unit or removes it, places orders and checks out; Stripe calls
\* the webhook; the admin edits and deletes orders.
NextPayment ==
    \/ \E p \in ProductIds : add_item(1, p, InitQty)
    \/ \E q \in 0..1 : update_item(1, 1, q)
    \/ create_order(1, NoShipping, FALSE)
    \/ \E d \in PaymentCheckoutRequests : checkout_compatible(1, d, FALSE)
    \/ \E signature_ok \in BOOLEAN, e \in WebhookEvents : stripe_webhook(signature_ok, e)
    \/ \E o \in OrderIdInputs, payload \in OrderUpdatePayloads \ {NoUpdate} :
          update_order(3, o, payload)
    \/ \E o \in OrderIdInputs : delete_order(3, o)

SpecPayment == Init /\ [][NextPayment]_vars

\* ------------------------------------------------- claims: orders after creation
ItemsOf(tbl, order_id) == Restrict(tbl, {k \in DOMAIN tbl : k[1] = order_id})

PaymentsOf(ps, order_id, pi_id) ==
    {p \in DOMAIN ps : ps[p].order_id = order_id /\ ps[p].stripe_pi = pi_id}

\* C4: a verified payment_intent.succeeded webhook that names an existing order
\* not yet paid leaves the order paid and exactly one Payment row for that
\* order and PaymentIntent, with status succeeded: the existing row updated, or
\* a new row created when there was none.
C4_WebhookMarksPaid ==
    \A e \in WebhookEvents :
        LET o == e.pi.order_id
            r == stripe_webhook_result(TRUE, e)
            before == PaymentsOf(payments, o, e.pi.id)
            after == PaymentsOf(r.db.payments, o, e.pi.id)
        IN  ( /\ config.STRIPE_WEBHOOK_SECRET # ""
              /\ e.type = "payment_intent.succeeded"
              /\ o \in DOMAIN orders
              /\ orders[o].status # "paid" )
            => /\ r.db.orders[o].status = "paid"
               /\ Cardinality(after) = 1
               /\ \A p \in after : r.db.payments[p].status = "succeeded"
               /\ before # {} => after = before
               /\ \A p \in DOMAIN payments : p \in DOMAIN r.db.payments

\* C4 witness: the webhook paid an order by updating the payment row
\* create_order made, the admin marked the order shipped, and a webhook for
\* another PaymentIntent paid it again by creating a row.
C4_Witness ==
    /\ resp.op = "stripe_webhook" /\ resp.status = 200
    /\ \E o \in DOMAIN orders :
          /\ orders[o].status = "paid"
          /\ orders[o].notes = "n"
          /\ \E p1, p2 \in DOMAIN payments :
                /\ p1 # p2
                /\ payments[p1].order_id = o /\ payments[p1].status = "succeeded"
                /\ payments[p2].order_id = o /\ payments[p2].status = "succeeded"
                /\ payments[p1].stripe_pi # payments[p2].stripe_pi

\* A checkout request the handler has every reason to accept: the Stripe key
\* is configured, every item names a product with enough stock, every
\* quantity is positive, and Stripe does not fail.
AcceptableCheckout(i) ==
    /\ config.stripe_api_key # ""
    /\ i[1].items # <<>>
    /\ AllProductsKnown(i[1].items)
    /\ \A k \in 1..Len(i[1].items) : i[1].items[k].quantity > 0
    /\ ~RequestAsksTooMuch(i[1].items)
    /\ ~i[2]

DbOf(r) == [orders |-> r.db.orders, payments |-> r.db.payments]

\* C5 (as stated): checkout_compatible creates a paid order only for
\* paymentMethod 'wallet' or 'cod' and creates the order pending for every
\* other method; a pending order becomes paid only through a verified
\* payment_intent.succeeded webhook or an admin update; a webhook with a
\* missing secret, an invalid signature or another event type changes nothing.
C5_Original ==
    /\ [](\A u \in Customers, i \in CheckoutInputs :
            AcceptableCheckout(i) =>
                LET r == checkout_compatible_result(u, i[1], i[2])
                    new == DOMAIN r.db.orders \ DOMAIN orders
                IN  /\ Cardinality(new) = 1
                    /\ \A o \in new :
                          r.db.orders[o].status =
                              IF i[1].paymentMethod \in {"wallet", "cod"}
                              THEN "paid" ELSE "pending")
    /\ [](\A signature_ok \in BOOLEAN, e \in WebhookEvents :
            ( \/ config.STRIPE_WEBHOOK_SECRET = ""
              \/ ~signature_ok
              \/ e.type # "payment_intent.succeeded" )
            => DbOf(stripe_webhook_result(signature_ok, e))
                  = [orders |-> orders, payments |-> payments])
    /\ [][\A o \in DOMAIN orders \cap DOMAIN orders' :
            (orders[o].status = "pending" /\ orders'[o].status = "paid")
            => /\ resp'.op \in {"stripe_webhook", "update_order"}
               /\ resp'.status = 200]_vars

\* ------------------------------------------------------------ account system
\* Clients register with a seeded email or a new one, with or without a role
\* key; the first customer fills the cart and places orders, whose shipping
\* address may fill in the user's name and phone.
RegisterBodies ==
    [email : {"a@revo", "admin@revo", "new@revo"}, role : {NoneStr, "admin", "customer"}]

NextAccounts ==
    \/ \E body \in RegisterBodies : register(body)
    \/ \E p \in ProductIds : add_item(1, p, 1)
    \/ \E sh \in ShippingInputs, sr \in BOOLEAN : create_order(1, sh, sr)

SpecAccounts == Init /\ [][NextAccounts]_vars

\* Some user has this email.
EmailInUse(email) == \E u \in DOMAIN users : users[u].email = email

\* The users register_result adds.
Registered(r) == DOMAIN r.db.users \ DOMAIN users

\* C11 (as stated): register creates the account it is asked for, and every
\* user created through register has role 'customer' whatever role the client
\* sends: a register request with an email no user has adds exactly one user,
\* with that email and role 'customer'.
C11_Original ==
    \A body \in RegisterBodies :
        ~EmailInUse(body.email) =>
            LET r == register_result(body)
            IN  /\ r.resp.success
                /\ Cardinality(Registered(r)) = 1
                /\ \A u \in Registered(r) :
                      /\ r.db.users[u].email = body.email
                      /\ r.db.users[u].role = "customer"

\* C12: register with an email that already belongs to a user creates no
\* user, issues no token and answers success=false with error 'Email already
\* registered'; and in every reachable state no two users have the same email.
C12_DuplicateEmailRefused ==
    /\ \A body \in RegisterBodies :
          EmailInUse(body.email) =>
              LET r == register_result(body)
              IN  /\ r.db.users = users
                  /\ r.db.token = None
                  /\ ~r.resp.success
                  /\ r.resp.detail = "Email already registered"
    /\ \A u, v \in DOMAIN users : u # v => users[u].email # users[v].email

\* C12 witness: a register request with the first customer's email was refused
\* after that customer's name had been filled in by an order.
C12_Witness ==
    /\ resp.op = "register"
    /\ ~resp.success
    /\ resp.detail = "Email already registered"
    /\ users[1].full_name # NoneStr
    /\ orders # EmptyTable

\* ------------------------------------------------------------ address system
AddressCreateInputs ==
    { [full_name |-> "Ann", is_default |-> d] : d \in {"True", "False"} }

AddressUpdateInputs ==
    { [full_name |-> Unset, is_default |-> "True"],
      [full_name |-> "Bob", is_default |-> "False"],
      [full_name |-> "Bob", is_default |-> Unset],
      [full_name |-> Unset, is_default |-> NoneStr] }

\* The column's nullability only matters when the body sets is_default to null.
NullOutcomes(address_in) == IF address_in.is_default = NoneStr THEN BOOLEAN ELSE {TRUE}

AddressIdInputs == 1..(MaxAddresses + 1)

NextAddress ==
    \/ \E u \in Customers, address_in \in AddressCreateInputs :
          create_address(u, address_in)
    \/ \E u \in Customers, a \in AddressIdInputs, address_in \in AddressUpdateInputs :
          \E null_ok \in NullOutcomes(address_in) :
              update_address(u, a, address_in, null_ok)
    \/ \E u \in Customers, a \in AddressIdInputs : delete_address(u, a)

SpecAddress == InitConfigured /\ [][NextAddress]_vars

DefaultsOf(u) == {a \in AddressesOf(addresses, u) : addresses[a].is_default = "True"}

\* C8: after any sequence of create_address, update_address and
\* delete_address requests, every user has at most one address with
\* is_default true.
C8_AtMostOneDefault == \A u \in DOMAIN users : Cardinality(DefaultsOf(u)) <= 1

\* C8 witness: a user with several addresses moved the default from the first
\* address to a later one by update_address.
C8_Witness ==
    /\ resp.op = "update_address" /\ resp.status = 200
    /\ \E u \in Customers :
          /\ Cardinality(AddressesOf(addresses, u)) >= 2
          /\ \E a, b \in AddressesOf(addresses, u) :
                a < b /\ DefaultsOf(u) = {b} /\ addresses[a].is_default = "False"

\* ---------------------------------------------------------- ownership system
\* The first customer owns addresses and pickup requests, both customers own
\* carts, and each calls the handlers with every id.
RespondActions == {"accept", " REJECT ", "maybe"}

PickupIdInputs == 1..(MaxPickups + 1)

NextOwner ==
    \/ create_address(1, [full_name |-> "Ann", is_default |-> "False"])
    \/ \E u \in Customers, a \in 1..MaxAddresses :
          update_address(u, a, [full_name |-> Unset, is_default |-> "True"], TRUE)
    \/ \E u \in Customers, a \in 1..MaxAddresses : delete_address(u, a)
    \/ \E u \in Customers : add_item(u, 1, MaxCartQty)
    \/ \E u \in Customers : delete_item(u, 1)
    \/ create_pickup_request(1, 1, NoneStr)
    \/ \E u \in Customers, k \in PickupIdInputs, action \in {"accept", "maybe"} :
          respond_to_offer(u, k, action)

SpecOwner == InitConfigured /\ [][NextOwner]_vars

\* The cart of user b and its items.
CartContents(cs, items, b) ==
    [cart |-> CartOf(cs, b),
     items |-> Restrict(items, {k \in DOMAIN items : k[1] = CartOf(cs, b)})]

\* Every outcome a cart request by user a can have in the current state.
CartResults(a) ==
    {get_cart_result(a)}
    \cup {add_item_result(a, p, q) : p \in ProductIdInputs, q \in 0..MaxCartQty}
    \cup {update_item_result(a, p, q) : p \in ProductIdInputs, q \in 0..MaxCartQty}
    \cup {delete_item_result(a, p) : p \in ProductIdInputs}

\* C9: no request by one user changes another user's resource: update_address
\* and delete_address on another user's address answer 403 and change nothing,
\* respond_to_offer on another user's pickup request answers 404 and changes
\* nothing, and the cart requests of a user leave every other user's cart and
\* cart items as they were.
C9_OwnResourcesOnly ==
    /\ \A a \in DOMAIN users, k \in DOMAIN addresses :
            addresses[k].user_id # a =>
                /\ \A address_in \in AddressUpdateInputs, null_ok \in BOOLEAN :
                      LET r == update_address_result(a, k, address_in, null_ok)
                      IN  r.resp.status = 403 /\ r.addresses = addresses
                /\ LET r == delete_address_result(a, k)
                   IN  r.resp.status = 403 /\ r.addresses = addresses
    /\ \A a \in DOMAIN users, k \in DOMAIN pickup_requests :
            pickup_requests[k].user_id # a =>
                \A action \in RespondActions :
                    LET r == respond_to_offer_result(a, k, action)
                    IN  r.resp.status = 404 /\ r.pickup_requests = pickup_requests
    /\ \A a \in DOMAIN users :
            \A b \in DOMAIN users \ {a}, r \in CartResults(a) :
                CartContents(r.carts, r.cart_items, b)
                    = CartContents(carts, cart_items, b)

\* C9 witness: a customer's update of the other customer's default address was
\* answered 403 while both had carts with items and the other had a pickup
\* request.
C9_Witness ==
    /\ resp.op = "update_address" /\ resp.status = 403
    /\ \E a, b \in Customers :
          /\ a # b
          /\ DefaultsOf(b) # {}
          /\ CartLines(a) # {} /\ CartLines(b) # {}
          /\ \E k \in DOMAIN pickup_requests : pickup_requests[k].user_id = b

\* ----------------------------------------------------------------- role system
\* A customer places an order and a pickup request; the customer, the admin
\* and the evaluator call the admin endpoints and create_evaluation.
Callers == {1} \cup Admins \cup Evaluators

EvaluationPayloads ==
    { [final_offer |-> 5, notes |-> "ok", status |-> st] : st \in {"offered", "collected"} }

EvaluationCreates == { [pickup_id |-> k, final_offer |-> 4] : k \in PickupIdInputs }

NextRoles ==
    \/ add_item(1, 1, 1)
    \/ create_order(1, NoShipping, FALSE)
    \/ create_pickup_request(1, 1, NoneStr)
    \/ \E u \in Callers : list_orders(u)
    \/ \E u \in Callers, o \in OrderIdInputs :
          update_order(u, o, [status |-> "shipped", notes |-> "n"])
    \/ \E u \in Callers, o \in OrderIdInputs : delete_order(u, o)
    \/ \E u \in Callers : list_tradeins(u)
    \/ \E u \in Callers, k \in PickupIdInputs :
          evaluate_tradein(u, k, [final_offer |-> 5, notes |-> "ok", status |-> "collected"])
    \/ \E u \in Callers, k \in PickupIdInputs : delete_tradein(u, k)
    \/ \E u \in Callers, payload \in EvaluationCreates : create_evaluation(u, payload)

SpecRoles == InitConfigured /\ [][NextRoles]_vars

\* Every response an admin endpoint can give to caller u in the current state.
AdminResults(u) ==
    {list_orders_result(u), list_tradeins_result(u)}
    \cup {update_order_result(u, o, payload) :
             o \in OrderIdInputs, payload \in OrderUpdatePayloads}
    \cup {delete_order_result(u, o) : o \in OrderIdInputs}
    \cup {evaluate_tradein_result(u, k[1], payload, k[2]) :
             k \in {x \in PickupIdInputs \X (DOMAIN evaluations \cup {None}) :
                       x[2] \in FirstEvaluation(x[1])},
             payload \in EvaluationPayloads}
    \cup {delete_tradein_result(u, k) : k \in PickupIdInputs}

\* C10: every admin endpoint called by a user whose role is not admin answers
\* 403, create_evaluation called by a user whose role is not evaluator answers
\* 403, and neither changes anything.
C10_RolesEnforced ==
    \A u \in DOMAIN users :
        /\ users[u].role # "admin" =>
              \A r \in AdminResults(u) : r.resp.status = 403 /\ r.db = StaffDb
        /\ users[u].role # "evaluator" =>
              \A payload \in EvaluationCreates :
                  LET r == create_evaluation_result(u, payload)
                  IN  r.resp.status = 403 /\ r.db = StaffDb

\* C10 witness: with an order and an evaluated pickup request in the database,
\* a customer's delete_order was answered 403.
C10_Witness ==
    /\ resp.op = "delete_order" /\ resp.status = 403
    /\ orders # EmptyTable
    /\ evaluations # EmptyTable
    /\ \E k \in DOMAIN pickup_requests : pickup_requests[k].status = "offered"

\* -------------------------------------------------------------- trade-in system
\* Clients ask for estimates; customers create pickup requests, the evaluator
\* and the admin record evaluations, and customers respond to offers.
DeviceKeys == {"brand", "model", "storage", "condition"}

\* Device descriptions with every key, and the same with keys left out.
DeviceDescriptions ==
    [brand : {"", "Apple"},
     model : {"iPhone 13"},
     storage : {"64GB", "128GB", "256GB", "512GB", "1TB"},
     condition : {"", "A", "a", "B", "b", "C", "c", "D", " a"}]

DeviceDataInputs == {Restrict(d, K) : d \in DeviceDescriptions, K \in SUBSET DeviceKeys}

BrandIdInputs == {None} \cup (1..(Cardinality(DOMAIN brands) + 1))

BrandNameInputs == {NoneStr, "", "Apple", "Nokia"}

TradeinPayloads ==
    { [final_offer |-> 5, notes |-> "ok", status |-> "offered"],
      [final_offer |-> 7, notes |-> "low", status |-> "collected"] }

NextEstimate == \E deviceData \in DeviceDataInputs : get_tradein_estimate(deviceData)

SpecEstimate == Init /\ [][NextEstimate]_vars

NextTradein ==
    \/ \E u \in Customers, brand_id \in BrandIdInputs, brand_name \in BrandNameInputs :
          create_pickup_request(u, brand_id, brand_name)
    \/ \E u \in Evaluators, payload \in EvaluationCreates : create_evaluation(u, payload)
    \/ \E u \in Admins, k \in PickupIdInputs, payload \in TradeinPayloads :
          evaluate_tradein(u, k, payload)
    \/ \E u \in Customers, k \in PickupIdInputs, action \in RespondActions :
          respond_to_offer(u, k, action)

SpecTradein == Init /\ [][NextTradein]_vars

\* The base price the estimate is to use, in dollars.
ExpectedBase(condition) ==
    IF condition \in {"A", "a"} THEN 800
    ELSE IF condition \in {"B", "b"} THEN 600
    ELSE IF condition \in {"C", "c"} THEN 400
    ELSE 500

\* Ten times the multiplier the estimate is to use.
ExpectedTenths(storage) ==
    IF storage = "256GB" THEN 12
    ELSE IF storage = "512GB" THEN 15
    ELSE IF storage = "1TB" THEN 20
    ELSE 10

\* The request gives a non-empty value under this key.
Given(deviceData, key) ==
    key \in DOMAIN deviceData /\ deviceData[key] \notin {NoneStr, ""}

\* C13: for every request with non-empty brand, model and condition,
\* get_tradein_estimate returns estimated_price = base(condition) *
\* multiplier(storage), with base 800, 600, 400 for condition A, B, C in either
\* case and 500 for any other, and multiplier 1.0, 1.2, 1.5, 2.0 for 128GB,
\* 256GB, 512GB, 1TB and 1.0 for any other or missing storage, together with
\* service_fee = 50 and net_amount = estimated_price - 50; when brand, model or
\* condition is missing it returns success=false and no prices.
C13_EstimateTable ==
    resp.op = "get_tradein_estimate" =>
        LET deviceData == resp.deviceData
            r == resp.body
            storage == IF "storage" \in DOMAIN deviceData
                       THEN deviceData["storage"] ELSE NoneStr
        IN  IF Given(deviceData, "brand") /\ Given(deviceData, "model")
               /\ Given(deviceData, "condition")
            THEN /\ r.success
                 /\ r.data.estimated_price * 10
                        = ExpectedBase(deviceData["condition"]) * ExpectedTenths(storage)
                 /\ r.data.service_fee = 50
                 /\ r.data.net_amount = r.data.estimated_price - 50
            ELSE /\ ~r.success
                 /\ "data" \notin DOMAIN r

\* C13 witness: an estimate request for a 256GB device in condition b was
\* answered 720 with net amount 670.
C13_Witness ==
    /\ resp.op = "get_tradein_estimate"
    /\ Given(resp.deviceData, "condition") /\ resp.deviceData["condition"] = "b"
    /\ Given(resp.deviceData, "storage") /\ resp.deviceData["storage"] = "256GB"
    /\ resp.success
    /\ resp.body.data.estimated_price = 720
    /\ resp.body.data.net_amount = 670

\* No brand has this name.
UnknownBrandName(brand_name) == \A b \in DOMAIN brands : brands[b] # brand_name

\* C14 (as stated): create_pickup_request called with a brand_name that matches
\* no brand, and no brand_id, responds 404 Not Found and creates no pickup
\* request; called with neither brand_id nor brand_name it responds 400 Bad
\* Request and creates no pickup request.
C14_Original ==
    \A u \in Customers, brand_name \in BrandNameInputs :
        LET r == create_pickup_request_result(u, None, brand_name)
        IN  /\ (brand_name \notin {NoneStr, ""} /\ UnknownBrandName(brand_name))
                  => r.resp.status = 404 /\ r.pickup_requests = pickup_requests
            /\ brand_name \in {NoneStr, ""}
                  => r.resp.status = 400 /\ r.pickup_requests = pickup_requests

\* C15: evaluate_tradein creates an evaluation when the pickup request has
\* none and otherwise updates the existing one: called by an admin on a pickup
\* request with at most one evaluation, it leaves that pickup request with
\* exactly one evaluation, holding the payload's final_offer and notes with
\* tester_id = the calling admin, and with status = the payload's status (so
\* this is what every sequence of such calls on a pickup request that started
\* without an evaluation leaves); for an unknown pickup_id it returns 404 and
\* changes nothing.
C15_CreateOrUpdate ==
    \A u \in Admins, k \in PickupIdInputs, payload \in TradeinPayloads :
        \A evaluation \in FirstEvaluation(k) :
            LET r == evaluate_tradein_result(u, k, payload, evaluation)
                after == {e \in DOMAIN r.db.evaluations :
                             r.db.evaluations[e].pickup_id = k}
            IN  IF k \in DOMAIN pickup_requests
                THEN Cardinality({e \in DOMAIN evaluations :
                                     evaluations[e].pickup_id = k}) <= 1
                     => /\ r.resp.status = 200
                        /\ Cardinality(after) = 1
                        /\ \A e \in after :
                              /\ r.db.evaluations[e].final_offer = payload.final_offer
                              /\ r.db.evaluations[e].notes = payload.notes
                              /\ r.db.evaluations[e].tester_id = u
                        /\ r.db.pickup_requests[k].status = payload.status
                ELSE r.resp.status = 404 /\ r.db = StaffDb

\* C15 witness: evaluate_tradein was answered 200 and the pickup request, which
\* the evaluator's create_evaluation cannot have left collected, is collected
\* with one evaluation, by the admin, holding the payload's offer and notes.
C15_Witness ==
    /\ resp.op = "evaluate_tradein" /\ resp.status = 200
    /\ \E k \in DOMAIN pickup_requests :
          /\ pickup_requests[k].status = "collected"
          /\ \E e \in DOMAIN evaluations :
                /\ EvaluationsOf(evaluations, k) = {e}
                /\ evaluations[e].final_offer = 7
                /\ evaluations[e].notes = "low"
                /\ evaluations[e].tester_id \in Admins

\* ------------------------------------------------------------- cart lifecycle
\* The order the last successful create_order created.
LastOrder == next_id.orders - 1

\* C16 (as stated): the cart is consumed by its conversion to an order: after
\* create_order succeeds, the ordered items are no longer in the caller's cart,
\* so a second create_order without an intervening add_item fails with 'Cart
\* is empty', creates no second order and deducts no stock a second time.
C16_Original ==
    (resp.op = "create_order" /\ resp.status = 200 /\ LastOrder \in DOMAIN orders) =>
        LET u == orders[LastOrder].user_id
            again == create_order_result(u, NoShipping, FALSE)
        IN  /\ CartLines(u) = {}
            /\ again.resp.status = 400
            /\ again.resp.detail = "Cart is empty"
            /\ ~again.created
            /\ again.db.orders = orders
            /\ again.db.products = products

\* C18 (as stated): create_order is all-or-nothing: if it does not return
\* successfully, in particular when creating the Stripe PaymentIntent raises,
\* then no order and no order item from that request persist and every
\* product's qty is the same as before the request; equivalently, every
\* persisted order created by create_order has a Payment row.
C18_Original ==
    /\ \A u \in Customers, stripe_raises \in BOOLEAN :
          LET r == create_order_result(u, NoShipping, stripe_raises)
          IN  r.resp.status # 200 =>
                  /\ r.db.orders = orders
                  /\ r.db.order_items = order_items
                  /\ r.db.products = products
    /\ \A o \in DOMAIN orders : \E k \in DOMAIN payments : payments[k].order_id = o

\* ------------------------------------------------------------ offer lifecycle
Decided == {"accepted", "rejected"}

\* The pickup requests whose status this table shows decided and the current
\* table does not show the same.
NewlyDecided(tbl) ==
    {k \in DOMAIN tbl :
        /\ tbl[k].status \in Decided
        /\ (k \in DOMAIN pickup_requests => pickup_requests[k].status # tbl[k].status)}

\* C19 (as stated): a pickup request is created with status requested, and its
\* status becomes accepted or rejected only by its owner's respond_to_offer
\* issued while the status is offered, i.e. only after an evaluation with an
\* offer has been recorded for it; respond_to_offer with an action other than
\* accept/reject (case-insensitive, trimmed) fails with HTTP 400 and leaves
\* the status unchanged.
C19_Original ==
    /\ \A u \in Customers, brand_id \in BrandIdInputs, brand_name \in BrandNameInputs :
          LET r == create_pickup_request_result(u, brand_id, brand_name)
          IN  \A k \in DOMAIN r.pickup_requests \ DOMAIN pickup_requests :
                  r.pickup_requests[k].status = "requested"
    /\ \A u \in Evaluators, payload \in EvaluationCreates :
          NewlyDecided(create_evaluation_result(u, payload).db.pickup_requests) = {}
    /\ \A u \in Admins, k \in PickupIdInputs, payload \in TradeinPayloads :
          \A evaluation \in FirstEvaluation(k) :
              NewlyDecided(evaluate_tradein_result(u, k, payload, evaluation)
                               .db.pickup_requests) = {}
    /\ \A u \in DOMAIN users, k \in DOMAIN pickup_requests, action \in RespondActions :
          LET r == respond_to_offer_result(u, k, action)
          IN  /\ \A j \in NewlyDecided(r.pickup_requests) :
                    /\ j = k
                    /\ pickup_requests[k].user_id = u
                    /\ pickup_requests[k].status = "offered"
                    /\ \E e \in DOMAIN evaluations : evaluations[e].pickup_id = k
              /\ (pickup_requests[k].user_id = u /\ action = "maybe")
                    => r.resp.status = 400 /\ r.pickup_requests = pickup_requests

\* ------------------------------------------------------- concurrent checkout
\* The two customers fill their carts with the first product and place orders
\* at the same time: the steps of their create_order requests interleave.
NextInterleaved ==
    \/ \E u \in Customers : add_item(u, 1, 1)
    \/ \E u \in Customers : begin_create_order(u)
    \/ \E u \in Customers : commit_create_order(u)

SpecInterleaved == InitConfigured /\ [][NextInterleaved]_vars

RECURSIVE SumQty(_, _)
SumQty(tbl, keys) ==
    IF keys = {} THEN 0
    ELSE LET k == CHOOSE x \in keys : TRUE
         IN  tbl[k].qty + SumQty(tbl, keys \ {k})

\* The units of product p recorded in the order items of all orders.
UnitsSold(p) == SumQty(order_items, {k \in DOMAIN order_items : k[2] = p})

\* C17 (as stated): for every interleaving of two concurrent checkout requests
\* that order the same product, stock is never oversold and no deduction is
\* lost: the units of the product recorded in the order items of the orders
\* that succeed do not exceed the product's qty before the requests, and once
\* the requests are done the qty equals the initial qty minus those units.
C17_Original ==
    \A p \in DOMAIN products :
        /\ UnitsSold(p) <= InitQty
        /\ (\A u \in Customers : sessions[u].pc = "idle")
              => products[p].qty = InitQty - UnitsSold(p)

====
